---- MODULE Spec2Model ----
(***************************************************************************)
(* A model of the weighted consistent-hash ring of consistentHash.go.       *)
(*                                                                         *)
(* Strings are sequences of byte values, as in Go: the node "a" is <<97>>, *)
(* the cube key "a#0" is <<97, 35, 48>>.  A ring position is the CRC-32    *)
(* (IEEE) of a string, computed bit by bit, reduced modulo HashSpace so    *)
(* that two cubes can share a position in a small ring.                    *)
(***************************************************************************)
EXTENDS Integers, Sequences, FiniteSets, TLC

\* ------------------------------------------------------------------ bounds
\* Largest weight a caller passes (weights range over -1 .. MaxWeight).
MaxWeight == 2
\* Largest cube number a caller passes to SetCubeNumber (-1 .. MaxCubes).
MaxCubes == 2
\* Number of ring positions: a position is CRC-32 modulo HashSpace.
HashSpace == 5
\* Largest replica count a caller passes to GetNodes (-1 .. MaxN).
MaxN == 3

\* The default number of cubes per unit of weight (128 in the source,
\* scaled down with the ring).
DefaultVirtualCubes == 2

\* ----------------------------------------------------------------- strings
\* Node names "a", "b", "c".
Nodes == {<<97>>, <<98>>, <<99>>}
\* Looked-up keys: "a#0" (also the key of a cube), "k", "z", "x", "y".
Keys == {<<97, 35, 48>>, <<107>>, <<122>>, <<120>>, <<121>>}

\* strconv.Itoa for i >= 0: the decimal digits of i, most significant first.
RECURSIVE Itoa(_)
Itoa(i) ==
    IF i < 10 THEN <<48 + i>> ELSE Itoa(i \div 10) \o <<48 + (i % 10)>>

\* ------------------------------------------------------------------ CRC-32
\* A 32-bit word is a sequence of 32 bits, least significant first.
Bits32(lo, hi) ==
    [i \in 1..32 |-> IF i <= 16 THEN (lo \div (2 ^ (i - 1))) % 2
                               ELSE (hi \div (2 ^ (i - 17))) % 2]

XorBits(a, b) == [i \in 1..32 |-> (a[i] + b[i]) % 2]

ShiftRight(a) == [i \in 1..32 |-> IF i < 32 THEN a[i + 1] ELSE 0]

\* The reflected IEEE polynomial 0xEDB88320.
IEEEPoly == Bits32(33568, 60856)

\* One of the eight shift steps a byte takes.
CrcShift(crc) ==
    IF crc[1] = 1 THEN XorBits(ShiftRight(crc), IEEEPoly) ELSE ShiftRight(crc)

CrcByte(crc, b) ==
    LET x0 == XorBits(crc, Bits32(b, 0))
        x1 == CrcShift(x0)
        x2 == CrcShift(x1)
        x3 == CrcShift(x2)
        x4 == CrcShift(x3)
        x5 == CrcShift(x4)
        x6 == CrcShift(x5)
        x7 == CrcShift(x6)
    IN  CrcShift(x7)

RECURSIVE CrcUpdate(_, _)
CrcUpdate(crc, bytes) ==
    IF bytes = <<>> THEN crc
    ELSE CrcUpdate(CrcByte(crc, Head(bytes)), Tail(bytes))

\* crc32.ChecksumIEEE: register preset to all ones, complemented at the end.
ChecksumIEEE(bytes) ==
    XorBits(CrcUpdate(Bits32(65535, 65535), bytes), Bits32(65535, 65535))

\* The value of a 32-bit word modulo m.
RECURSIVE ModOfBits(_, _, _)
ModOfBits(w, i, m) ==
    IF i = 0 THEN 0 ELSE (2 * ModOfBits(w, i - 1, m) + w[33 - i]) % m


\* ------------------------------------------------------------ the HashRing
\* Error values (Go's errors.New texts); Nil is the nil error.
Nil == "nil"
ErrEmptyRing == "empty hash ring"
ErrRingNotEmpty ==
    "nodes already exist in the ring, modify cube number is not allowed"
ErrInvalidNum == "num must be more than 0, suggest more than 32"

\* A map with no entries.
EmptyMap == [x \in {} |-> 0]

\* The HashRing struct: ring maps a position to its node, sortedRing is the
\* slice of positions (a nil slice and an empty one are both <<>>), members
\* is the key set of the members map (every stored value is true), weights
\* maps a node to its weight.
NewRing ==
    [ring |-> EmptyMap, sortedRing |-> <<>>, members |-> {},
     weights |-> EmptyMap, numberOfCubes |-> DefaultVirtualCubes]

generateKey(ip, i) == ip \o <<35>> \o Itoa(i)

\* The largest cube number a ring can hold.
MaxCubeNumber ==
    IF DefaultVirtualCubes > MaxCubes THEN DefaultVirtualCubes ELSE MaxCubes

\* The CRC-32 of every string the model hashes, computed once.
HashedStrings ==
    Keys \cup {generateKey(ip, i) :
                 ip \in Nodes, i \in 0..(MaxCubeNumber * MaxWeight)}
Crc32Table ==
    [s \in HashedStrings |-> ModOfBits(ChecksumIEEE(s), 32, HashSpace)]

generateHash(key) == Crc32Table[key]

\* The positions of the first `count` cubes of node ip.
CubeHashes(ip, count) ==
    {generateHash(generateKey(ip, i)) : i \in 0..(count - 1)}

SetMin(S) == CHOOSE x \in S : \A y \in S : x <= y

\* A sort into descending order.
RECURSIVE SortDescending(_)
SortDescending(S) ==
    IF S = {} THEN <<>>
    ELSE LET max == CHOOSE x \in S : \A y \in S : y <= x
         IN  <<max>> \o SortDescending(S \ {max})

\* sort.Sort over the keys of the ring map: ascending order.
RECURSIVE SortAscending(_)
SortAscending(S) ==
    IF S = {} THEN <<>>
    ELSE <<SetMin(S)>> \o SortAscending(S \ {SetMin(S)})

updateSortedRing(r) ==
    [r EXCEPT !.sortedRing = SortAscending(DOMAIN r.ring)]

\* The insertion loop of AddNode and AddNodes: every cube position of ip is
\* written with ip, whoever held it.
InsertCubes(ring, ip, count) ==
    LET P == CubeHashes(ip, count)
    IN  [p \in (DOMAIN ring) \cup P |-> IF p \in P THEN ip ELSE ring[p]]

\* The deletion loop of RemoveNode: every cube position of elt is deleted,
\* whoever holds it.
DeleteCubes(ring, elt, count) ==
    LET P == CubeHashes(elt, count)
    IN  [p \in (DOMAIN ring) \ P |-> ring[p]]

\* An addition that takes the weight as it is given.
AddOneRawWeight(r, ip, weight) ==
    [r EXCEPT !.ring = InsertCubes(r.ring, ip, r.numberOfCubes * weight),
              !.members = r.members \cup {ip},
              !.weights = [n \in (DOMAIN r.weights) \cup {ip} |->
                              IF n = ip THEN weight ELSE r.weights[n]]]

\* The body of the loop of AddNodes, and AddNode before its rebuild.
AddOne(r, ip, weight) ==
    LET w == IF weight <= 0 THEN 1 ELSE weight
    IN  [r EXCEPT !.ring = InsertCubes(r.ring, ip, r.numberOfCubes * w),
                  !.members = r.members \cup {ip},
                  !.weights = [n \in (DOMAIN r.weights) \cup {ip} |->
                                  IF n = ip THEN w ELSE r.weights[n]]]

AddNode(r, ip, weight) == updateSortedRing(AddOne(r, ip, weight))

\* AddNodes ranges over a Go map, whose iteration order is not specified:
\* order is one sequence of the map's keys.
RECURSIVE AddEach(_, _, _)
AddEach(r, ipWeight, order) ==
    IF order = <<>> THEN r
    ELSE AddEach(AddOne(r, Head(order), ipWeight[Head(order)]),
                 ipWeight, Tail(order))

AddNodes(r, ipWeight, order) == updateSortedRing(AddEach(r, ipWeight, order))

\* A removal that takes an unknown node to have weight 1.
RemoveNodeDefaultWeight(r, elt) ==
    LET weight == IF elt \in DOMAIN r.weights THEN r.weights[elt] ELSE 1
    IN  [r EXCEPT !.ring = DeleteCubes(r.ring, elt, r.numberOfCubes * weight),
                  !.sortedRing = SortAscending(
                      DOMAIN DeleteCubes(r.ring, elt, r.numberOfCubes * weight)),
                  !.members = r.members \ {elt},
                  !.weights = [n \in (DOMAIN r.weights) \ {elt} |->
                                  r.weights[n]]]

RemoveNode(r, elt) ==
    LET weight == IF elt \in DOMAIN r.weights THEN r.weights[elt] ELSE 0
    IN  updateSortedRing(
          [r EXCEPT !.ring = DeleteCubes(r.ring, elt, r.numberOfCubes * weight),
                    !.members = r.members \ {elt},
                    !.weights = [n \in (DOMAIN r.weights) \ {elt} |->
                                    r.weights[n]]])

\* A binary search that takes a position equal to key for a match.
RECURSIVE SortSearchAtOrAfter(_, _, _, _)
SortSearchAtOrAfter(sorted, key, i, j) ==
    IF i < j
    THEN LET h == (i + j) \div 2
         IN  IF ~(sorted[h + 1] >= key)
             THEN SortSearchAtOrAfter(sorted, key, h + 1, j)
             ELSE SortSearchAtOrAfter(sorted, key, i, h)
    ELSE i

\* sort.Search(n, f) with f(x) = sortedRing[x] > key: binary search for the
\* smallest 0-based index whose position exceeds key, n if there is none.
RECURSIVE SortSearch(_, _, _, _)
SortSearch(sorted, key, i, j) ==
    IF i < j
    THEN LET h == (i + j) \div 2
         IN  IF ~(sorted[h + 1] > key)
             THEN SortSearch(sorted, key, h + 1, j)
             ELSE SortSearch(sorted, key, i, h)
    ELSE i

\* A search that, past the end, takes the last index.
searchWrapToLast(r, key) ==
    LET index == SortSearch(r.sortedRing, key, 0, Len(r.sortedRing))
    IN  IF index >= Len(r.sortedRing) THEN Len(r.sortedRing) - 1 ELSE index

\* search: 0-based index into sortedRing, wrapping to 0 past the end.
search(r, key) ==
    LET index == SortSearch(r.sortedRing, key, 0, Len(r.sortedRing))
    IN  IF index >= Len(r.sortedRing) THEN 0 ELSE index

\* A lookup that spreads keys by hash modulo the number of positions.
GetNodeModulo(r, name) ==
    IF Cardinality(DOMAIN r.ring) = 0
    THEN [node |-> <<>>, err |-> ErrEmptyRing]
    ELSE [node |-> r.ring[r.sortedRing[
                       (generateHash(name) % Len(r.sortedRing)) + 1]],
          err |-> Nil]

GetNode(r, name) ==
    IF Cardinality(DOMAIN r.ring) = 0
    THEN [node |-> <<>>, err |-> ErrEmptyRing]
    ELSE [node |-> r.ring[r.sortedRing[search(r, generateHash(name)) + 1]],
          err |-> Nil]

\* A member list made of the names that own a position.
MembersFromRing(r) == {r.ring[p] : p \in DOMAIN r.ring}

\* Members returns the keys of the members map; their order in the slice is
\* the map's iteration order, so a caller can rely on the set alone.
Members(r) == r.members

sliceHasMember(slice, member) == \E x \in 1..Len(slice) : slice[x] = member

\* The loop "for i = start + 1; i != start; i++" of GetNodes, entered with
\* index i and done bodies already run.  Once every position has been
\* visited the collected names no longer change, so a loop that has run
\* Len(sortedRing) bodies without leaving never leaves: returns is FALSE.
RECURSIVE GetNodesLoop(_, _, _, _, _, _)
GetNodesLoop(r, start, i, nodes, n, done) ==
    IF i = start THEN [nodes |-> nodes, err |-> Nil, returns |-> TRUE]
    ELSE IF done >= Len(r.sortedRing)
    THEN [nodes |-> nodes, err |-> Nil, returns |-> FALSE]
    ELSE LET j == IF i >= Len(r.sortedRing) THEN 0 ELSE i
             elem == r.ring[r.sortedRing[j + 1]]
             more == IF ~sliceHasMember(nodes, elem)
                     THEN Append(nodes, elem) ELSE nodes
         IN  IF Len(more) = n
             THEN [nodes |-> more, err |-> Nil, returns |-> TRUE]
             ELSE GetNodesLoop(r, start, j + 1, more, n, done + 1)

GetNodes(r, name, n) ==
    IF Cardinality(DOMAIN r.ring) = 0
    THEN [nodes |-> <<>>, err |-> Nil, returns |-> TRUE]
    ELSE LET memberCount == Cardinality(Members(r))
             n1 == IF memberCount < n THEN memberCount ELSE n
             i == search(r, generateHash(name))
             nodes == <<r.ring[r.sortedRing[i + 1]]>>
         IN  IF Len(nodes) = n1
             THEN [nodes |-> nodes, err |-> Nil, returns |-> TRUE]
             ELSE GetNodesLoop(r, i, i + 1, nodes, n1, 0)


\* SetCubeNumber on the ring rid of rs while GHashRing holds g (a ring id,
\* or NoRing for the nil pointer): the emptiness test reads
\* GHashRing.members, the write goes to the receiver.  Dereferencing the nil
\* pointer panics.
NoRing == 0

SetCubeNumber(rs, g, rid, num) ==
    IF g = NoRing THEN [ring |-> rs[rid], err |-> Nil, panics |-> TRUE]
    ELSE IF Cardinality(rs[g].members) # 0
    THEN [ring |-> rs[rid], err |-> ErrRingNotEmpty, panics |-> FALSE]
    ELSE IF num <= 0
    THEN [ring |-> rs[rid], err |-> ErrInvalidNum, panics |-> FALSE]
    ELSE [ring |-> [rs[rid] EXCEPT !.numberOfCubes = num], err |-> Nil,
          panics |-> FALSE]

\* ------------------------------------------------------------------ inputs
Weights == (-1)..MaxWeight
CubeNumbers == (-1)..MaxCubes
Counts == (-1)..MaxN

\* The maps a caller passes to AddNodes: any of the names, each with a
\* weight that is normalised (0) or the largest.
WeightMaps(names) == UNION {[S -> {0, MaxWeight}] : S \in SUBSET names}

\* The orders in which Go may range over a map with key set S.
Orders(S) ==
    {o \in [1..Cardinality(S) -> S] :
        \A x, y \in DOMAIN o : x # y => o[x] # o[y]}

\* ------------------------------------------------------------------- state
\* rings:     the HashRing values that exist, by ring id
\* GHashRing: the id of the ring the package variable points at, or NoRing
\* last:      the call a sequential caller has in progress and what it
\*            returns, Idle between calls; for a call that changes a ring,
\*            pre is that ring before the call
\* procs:     the call each concurrent caller is in, and where
\* mu:        the ring's sync.RWMutex
VARIABLES rings, GHashRing, last, procs, mu

vars == <<rings, GHashRing, last, procs, mu>>

RingIds == {1, 2}
Procs == {"p1", "p2"}

Idle == [op |-> "none", returned |-> TRUE]

\* A concurrent caller between calls, and the mutex with no holder: writer
\* is the caller that has called Lock (NoProc if none), locked tells whether
\* it has the lock, readers counts each caller's read locks.
NoProc == "none"
IdleProc == [pc |-> "idle"]
FreeMutex ==
    [writer |-> NoProc, locked |-> FALSE, readers |-> [p \in Procs |-> 0]]

NoCallers == procs = [p \in Procs |-> IdleProc] /\ mu = FreeMutex

\* The program after its first InitHashRing().
Init ==
    /\ rings = (1 :> NewRing)
    /\ GHashRing = 1
    /\ last = Idle
    /\ NoCallers

\* -------------------------------------------------------- sequential calls
\* The caller makes one call after another: a call starts when the previous
\* one has returned.
CanCall(rid) == rid \in DOMAIN rings /\ last = Idle

\* The call in progress returns to its caller; a call that does not return
\* keeps the caller for ever.
Return ==
    /\ last # Idle
    /\ last.returned
    /\ last' = Idle
    /\ UNCHANGED <<rings, GHashRing, procs, mu>>

CallAddNode(rid, names) ==
    \E ip \in names, weight \in Weights :
        /\ CanCall(rid)
        /\ rings' = [rings EXCEPT ![rid] = AddNode(@, ip, weight)]
        /\ last' = [op |-> "AddNode", rid |-> rid, ip |-> ip,
                    weight |-> weight, pre |-> rings[rid], returned |-> TRUE]
        /\ UNCHANGED <<GHashRing, procs, mu>>

CallAddNodes(rid, names) ==
    \E ipWeight \in WeightMaps(names) :
        \E order \in Orders(DOMAIN ipWeight) :
            /\ CanCall(rid)
            /\ rings' = [rings EXCEPT ![rid] = AddNodes(@, ipWeight, order)]
            /\ last' = [op |-> "AddNodes", rid |-> rid, ipWeight |-> ipWeight,
                        pre |-> rings[rid], returned |-> TRUE]
            /\ UNCHANGED <<GHashRing, procs, mu>>

CallRemoveNode(rid, names) ==
    \E elt \in names :
        /\ CanCall(rid)
        /\ rings' = [rings EXCEPT ![rid] = RemoveNode(@, elt)]
        /\ last' = [op |-> "RemoveNode", rid |-> rid, elt |-> elt,
                    pre |-> rings[rid], returned |-> TRUE]
        /\ UNCHANGED <<GHashRing, procs, mu>>

CallSetCubeNumber(rid) ==
    \E num \in CubeNumbers :
        LET res == SetCubeNumber(rings, GHashRing, rid, num)
        IN  /\ CanCall(rid)
            /\ rings' = [rings EXCEPT ![rid] = res.ring]
            /\ last' = [op |-> "SetCubeNumber", rid |-> rid, num |-> num,
                        err |-> res.err, pre |-> rings[rid],
                        returned |-> ~res.panics]
            /\ UNCHANGED <<GHashRing, procs, mu>>

CallGetNode(rid) ==
    \E name \in Keys :
        LET res == GetNode(rings[rid], name)
        IN  /\ CanCall(rid)
            /\ last' = [op |-> "GetNode", rid |-> rid, name |-> name,
                        node |-> res.node, err |-> res.err, returned |-> TRUE]
            /\ UNCHANGED <<rings, GHashRing, procs, mu>>

CallGetNodes(rid) ==
    \E name \in Keys, n \in Counts :
        LET res == GetNodes(rings[rid], name, n)
        IN  /\ CanCall(rid)
            /\ last' = [op |-> "GetNodes", rid |-> rid, name |-> name,
                        n |-> n, nodes |-> res.nodes, err |-> res.err,
                        returned |-> res.returns]
            /\ UNCHANGED <<rings, GHashRing, procs, mu>>

CallMembers(rid) ==
    \E m \in Orders(Members(rings[rid])) :
        /\ CanCall(rid)
        /\ last' = [op |-> "Members", rid |-> rid, m |-> m, returned |-> TRUE]
        /\ UNCHANGED <<rings, GHashRing, procs, mu>>

\* One caller, one ring (the package's GHashRing), one call after another.
Next ==
    \/ CallAddNode(1, Nodes)
    \/ CallAddNodes(1, Nodes)
    \/ CallRemoveNode(1, Nodes)
    \/ CallSetCubeNumber(1)
    \/ CallGetNode(1)
    \/ CallGetNodes(1)
    \/ CallMembers(1)
    \/ Return

Spec == Init /\ [][Next]_vars

\* ------------------------------------------------------- several instances
\* The program before any ring exists: the package variable is nil.
InitNoRing ==
    /\ rings = EmptyMap
    /\ GHashRing = NoRing
    /\ last = Idle
    /\ NoCallers

\* The id the next HashRing value gets.
FreshRing == SetMin(RingIds \ DOMAIN rings)

\* InitHashRing makes a ring and points GHashRing at it, whatever it pointed
\* at before.
CallInitHashRing ==
    /\ last = Idle
    /\ RingIds \ DOMAIN rings # {}
    /\ rings' = [rid \in (DOMAIN rings) \cup {FreshRing} |->
                    IF rid = FreshRing THEN NewRing ELSE rings[rid]]
    /\ GHashRing' = FreshRing
    /\ last' = [op |-> "InitHashRing", rid |-> FreshRing, returned |-> TRUE]
    /\ UNCHANGED <<procs, mu>>

\* GetHashRing returns the ring GHashRing points at and makes one if it is
\* nil.
CallGetHashRing ==
    /\ last = Idle
    /\ IF GHashRing # NoRing
       THEN /\ last' = [op |-> "GetHashRing", rid |-> GHashRing,
                        returned |-> TRUE]
            /\ UNCHANGED <<rings, GHashRing>>
       ELSE /\ rings' = [rid \in (DOMAIN rings) \cup {FreshRing} |->
                            IF rid = FreshRing THEN NewRing ELSE rings[rid]]
            /\ GHashRing' = FreshRing
            /\ last' = [op |-> "GetHashRing", rid |-> FreshRing,
                        returned |-> TRUE]
    /\ UNCHANGED <<procs, mu>>

\* The names the callers of the several rings use.
InstanceNodes == {<<97>>}

\* One caller that makes rings and configures and fills any of them.
NextInstances ==
    \/ CallInitHashRing
    \/ CallGetHashRing
    \/ \E rid \in RingIds : CallAddNode(rid, InstanceNodes)
    \/ \E rid \in RingIds : CallAddNodes(rid, InstanceNodes)
    \/ \E rid \in RingIds : CallRemoveNode(rid, InstanceNodes)
    \/ \E rid \in RingIds : CallSetCubeNumber(rid)
    \/ Return

SpecInstances == InitNoRing /\ [][NextInstances]_vars

\* ------------------------------------------------- two rings, built alike
\* The program after two InitHashRing() calls: two rings with no node.
InitBuild ==
    /\ rings = (1 :> NewRing @@ 2 :> NewRing)
    /\ GHashRing = 2
    /\ last = Idle
    /\ NoCallers

\* One caller that fills two rings, adding to either ring names it has not
\* added to that ring yet, by AddNode or by AddNodes.
NextBuild ==
    \/ \E rid \in RingIds : CallAddNode(rid, Nodes \ rings[rid].members)
    \/ \E rid \in RingIds : CallAddNodes(rid, Nodes \ rings[rid].members)
    \/ Return

SpecBuild == InitBuild /\ [][NextBuild]_vars

\* ------------------------------------------------------ concurrent callers
\* The callers of Procs call into ring 1, the ring GHashRing points at, each
\* call a sequence of steps.  A step is what a call does between two places
\* where another caller can see or change what it works on: the mutex, and
\* the fields SetCubeNumber touches without holding it.
ConcNodes == {<<97>>}
ConcKeys == {<<107>>}
ConcWeights == {1, MaxWeight}
ConcCounts == {1}

TheRing == rings[1]

\* sync.RWMutex.  Lock first shuts out new readers and other writers, then
\* waits until the readers that hold the lock have left.
LockAnnounce(p) ==
    /\ mu.writer = NoProc
    /\ mu' = [mu EXCEPT !.writer = p]

LockAcquire(p) ==
    /\ mu.writer = p
    /\ ~mu.locked
    /\ \A q \in Procs : mu.readers[q] = 0
    /\ mu' = [mu EXCEPT !.locked = TRUE]

Unlock == mu' = [mu EXCEPT !.writer = NoProc, !.locked = FALSE]

\* A read lock that is granted whatever a writer does.
RLockPastWriter(p) ==
    mu' = [mu EXCEPT !.readers[p] = @ + 1]

\* RLock waits while a writer holds the lock or waits for it.
RLock(p) ==
    /\ mu.writer = NoProc
    /\ mu' = [mu EXCEPT !.readers[p] = @ + 1]

RUnlock(p) == mu' = [mu EXCEPT !.readers[p] = @ - 1]

Goto(p, rec) == procs' = [procs EXCEPT ![p] = rec]

\* A caller starts a call.
StartCall(p) ==
    /\ procs[p] = IdleProc
    /\ \/ \E ip \in ConcNodes, weight \in ConcWeights :
              Goto(p, [op |-> "AddNode", pc |-> "lock", ip |-> ip,
                       weight |-> weight, i |-> 0])
       \/ \E ipWeight \in WeightMaps(ConcNodes) :
              Goto(p, [op |-> "AddNodes", pc |-> "lock",
                       ipWeight |-> ipWeight])
       \/ \E elt \in ConcNodes :
              Goto(p, [op |-> "RemoveNode", pc |-> "lock", elt |-> elt,
                       i |-> 0])
       \/ \E num \in CubeNumbers :
              Goto(p, [op |-> "SetCubeNumber", pc |-> "check", num |-> num])
       \/ \E name \in ConcKeys :
              Goto(p, [op |-> "GetNode", pc |-> "rlock", name |-> name])
       \/ \E name \in ConcKeys, n \in ConcCounts :
              Goto(p, [op |-> "GetNodes", pc |-> "rlock", name |-> name,
                       n |-> n])
       \/ Goto(p, [op |-> "Members", pc |-> "rlock"])
    /\ UNCHANGED <<rings, GHashRing, last, mu>>

\* r.Lock() of AddNode, AddNodes and RemoveNode, in its two parts.
WriterAnnounce(p) ==
    /\ procs[p].pc = "lock"
    /\ LockAnnounce(p)
    /\ Goto(p, [procs[p] EXCEPT !.pc = "wait"])
    /\ UNCHANGED <<rings, GHashRing, last>>

WriterAcquire(p) ==
    /\ procs[p].pc = "wait"
    /\ LockAcquire(p)
    /\ Goto(p, [procs[p] EXCEPT !.pc = "body"])
    /\ UNCHANGED <<rings, GHashRing, last>>

\* r.RLock() of GetNode, GetNodes and Members.
ReaderAcquire(p) ==
    /\ procs[p].pc = "rlock"
    /\ RLock(p)
    /\ Goto(p, [procs[p] EXCEPT !.pc = "body"])
    /\ UNCHANGED <<rings, GHashRing, last>>

\* AddNode under the lock: one turn of its loop, whose bound reads
\* numberOfCubes anew; past the loop, the rest of the call.
AddNodeStep(p) ==
    LET c == procs[p]
        w == IF c.weight <= 0 THEN 1 ELSE c.weight
    IN  /\ c.pc = "body"
        /\ c.op = "AddNode"
        /\ IF c.i < TheRing.numberOfCubes * w
           THEN /\ rings' = [rings EXCEPT ![1].ring =
                       [q \in (DOMAIN @) \cup {generateHash(generateKey(c.ip, c.i))}
                           |-> IF q = generateHash(generateKey(c.ip, c.i))
                               THEN c.ip ELSE @[q]]]
                /\ Goto(p, [c EXCEPT !.i = @ + 1])
                /\ UNCHANGED mu
           ELSE /\ rings' = [rings EXCEPT ![1] = updateSortedRing(
                       [@ EXCEPT !.members = @ \cup {c.ip},
                                 !.weights =
                                     [n \in (DOMAIN @) \cup {c.ip} |->
                                         IF n = c.ip THEN w ELSE @[n]]])]
                /\ Unlock
                /\ Goto(p, IdleProc)
        /\ UNCHANGED <<GHashRing, last>>

\* AddNodes under the lock.
AddNodesStep(p) ==
    /\ procs[p].pc = "body"
    /\ procs[p].op = "AddNodes"
    /\ \E order \in Orders(DOMAIN procs[p].ipWeight) :
           rings' = [rings EXCEPT
                        ![1] = AddNodes(@, procs[p].ipWeight, order)]
    /\ Unlock
    /\ Goto(p, IdleProc)
    /\ UNCHANGED <<GHashRing, last>>

\* RemoveNode under the lock: one turn of its loop, whose bound reads
\* numberOfCubes anew; past the loop, the rest of the call.
RemoveNodeStep(p) ==
    LET c == procs[p]
        weight == IF c.elt \in DOMAIN TheRing.weights
                  THEN TheRing.weights[c.elt] ELSE 0
    IN  /\ c.pc = "body"
        /\ c.op = "RemoveNode"
        /\ IF c.i < TheRing.numberOfCubes * weight
           THEN /\ rings' = [rings EXCEPT ![1].ring =
                       [q \in (DOMAIN @) \ {generateHash(generateKey(c.elt, c.i))}
                           |-> @[q]]]
                /\ Goto(p, [c EXCEPT !.i = @ + 1])
                /\ UNCHANGED mu
           ELSE /\ rings' = [rings EXCEPT ![1] = updateSortedRing(
                       [@ EXCEPT !.members = @ \ {c.elt},
                                 !.weights = [n \in (DOMAIN @) \ {c.elt} |->
                                                 @[n]]])]
                /\ Unlock
                /\ Goto(p, IdleProc)
        /\ UNCHANGED <<GHashRing, last>>

\* SetCubeNumber takes no lock: it reads len(GHashRing.members), and in a
\* later step writes numberOfCubes.
SetCubeNumberCheck(p) ==
    /\ procs[p].pc = "check"
    /\ IF Cardinality(rings[GHashRing].members) # 0
       THEN Goto(p, IdleProc)
       ELSE Goto(p, [procs[p] EXCEPT !.pc = "write"])
    /\ UNCHANGED <<rings, GHashRing, last, mu>>

SetCubeNumberWrite(p) ==
    /\ procs[p].pc = "write"
    /\ IF procs[p].num <= 0
       THEN UNCHANGED rings
       ELSE rings' = [rings EXCEPT ![1].numberOfCubes = procs[p].num]
    /\ Goto(p, IdleProc)
    /\ UNCHANGED <<GHashRing, last, mu>>

\* GetNode and Members under the read lock.
GetNodeStep(p) ==
    /\ procs[p].pc = "body"
    /\ procs[p].op \in {"GetNode", "Members"}
    /\ RUnlock(p)
    /\ Goto(p, IdleProc)
    /\ UNCHANGED <<rings, GHashRing, last>>

\* GetNodes under the read lock: it returns on a ring with no position and
\* calls r.Members() otherwise.
GetNodesStep(p) ==
    /\ procs[p].pc = "body"
    /\ procs[p].op = "GetNodes"
    /\ IF Cardinality(DOMAIN TheRing.ring) = 0
       THEN RUnlock(p) /\ Goto(p, IdleProc)
       ELSE UNCHANGED mu /\ Goto(p, [procs[p] EXCEPT !.pc = "members"])
    /\ UNCHANGED <<rings, GHashRing, last>>

\* The r.RLock() of the Members call GetNodes makes with its read lock held.
GetNodesMembersRLock(p) ==
    /\ procs[p].pc = "members"
    /\ RLock(p)
    /\ Goto(p, [procs[p] EXCEPT !.pc = "counted"])
    /\ UNCHANGED <<rings, GHashRing, last>>

\* Members returns to GetNodes, releasing its read lock.
GetNodesMembersReturn(p) ==
    /\ procs[p].pc = "counted"
    /\ RUnlock(p)
    /\ Goto(p, [procs[p] EXCEPT !.pc = "walk"])
    /\ UNCHANGED <<rings, GHashRing, last>>

\* The search and the walk of GetNodes; a walk that does not end keeps the
\* read lock.
GetNodesWalk(p) ==
    /\ procs[p].pc = "walk"
    /\ IF GetNodes(TheRing, procs[p].name, procs[p].n).returns
       THEN RUnlock(p) /\ Goto(p, IdleProc)
       ELSE UNCHANGED mu /\ Goto(p, [procs[p] EXCEPT !.pc = "spin"])
    /\ UNCHANGED <<rings, GHashRing, last>>

NextConc ==
    \E p \in Procs :
        \/ StartCall(p)
        \/ WriterAnnounce(p)
        \/ WriterAcquire(p)
        \/ ReaderAcquire(p)
        \/ AddNodeStep(p)
        \/ AddNodesStep(p)
        \/ RemoveNodeStep(p)
        \/ SetCubeNumberCheck(p)
        \/ SetCubeNumberWrite(p)
        \/ GetNodeStep(p)
        \/ GetNodesStep(p)
        \/ GetNodesMembersRLock(p)
        \/ GetNodesMembersReturn(p)
        \/ GetNodesWalk(p)

SpecConc == Init /\ [][NextConc]_vars

\* ------------------------------------------------------------------ claims
\* The ring the call in progress is made on.
Ring == rings[last.rid]

\* The owner of the first position at or after h, of the smallest position
\* when there is none; and the same for the first position after h.
OwnerAtOrAfter(r, h) ==
    LET at == {p \in DOMAIN r.ring : p >= h}
    IN  r.ring[SetMin(IF at = {} THEN DOMAIN r.ring ELSE at)]

OwnerAfter(r, h) ==
    LET after == {p \in DOMAIN r.ring : p > h}
    IN  r.ring[SetMin(IF after = {} THEN DOMAIN r.ring ELSE after)]

\* C1 as stated: on a ring with a position, GetNode(key) returns the owner
\* of the smallest position p >= hash(key), a position equal to the hash
\* being a match, and the owner of the smallest position when there is none.
C1_GetNodeAtOrAfter ==
    (last.op = "GetNode" /\ DOMAIN Ring.ring # {}) =>
        /\ last.err = Nil
        /\ last.node = OwnerAtOrAfter(Ring, generateHash(last.name))

\* C1 amended: on a ring with a position, GetNode(key) returns the owner of
\* the smallest position p > hash(key), a position equal to the hash not
\* being a match, and the owner of the smallest position when hash(key) is
\* greater than or equal to every position.
C1_GetNodeStrictlyAfter ==
    (last.op = "GetNode" /\ DOMAIN Ring.ring # {}) =>
        /\ last.err = Nil
        /\ last.node = OwnerAfter(Ring, generateHash(last.name))

\* GetNode was called with a key whose hash is a position, and returned the
\* owner of a later position, another node.
C1_Witness ==
    /\ last.op = "GetNode"
    /\ last.err = Nil
    /\ generateHash(last.name) \in DOMAIN Ring.ring
    /\ \E p \in DOMAIN Ring.ring : p > generateHash(last.name)
    /\ last.node # Ring.ring[generateHash(last.name)]

\* C2: minimal disruption on removal: after RemoveNode(x) of a registered
\* node x, every key that GetNode gave to a node y # x before the call is
\* still given to y.
C2_RemovalKeepsOtherOwners ==
    (last.op = "RemoveNode" /\ last.elt \in last.pre.members) =>
        \A k \in Keys :
            LET before == GetNode(last.pre, k)
                after == GetNode(Ring, k)
            IN  (before.err = Nil /\ before.node # last.elt) =>
                    (after.err = Nil /\ after.node = before.node)

\* C3: minimal disruption on addition: after AddNode(x, w) on a ring with a
\* position, GetNode(k) returns the node it returned before, or x.
C3_AdditionMovesKeysOnlyToNewNode ==
    (last.op = "AddNode" /\ DOMAIN last.pre.ring # {}) =>
        \A k \in Keys :
            /\ GetNode(Ring, k).err = Nil
            /\ GetNode(Ring, k).node \in {GetNode(last.pre, k).node, last.ip}

\* AddNode(x, w) was called on a ring with positions of two other nodes and
\* moved one key to x while another key stayed with its node.
C3_Witness ==
    /\ last.op = "AddNode"
    /\ last.ip \notin last.pre.members
    /\ Cardinality(last.pre.members) = 2
    /\ \E k \in Keys : /\ GetNode(last.pre, k).node # last.ip
                       /\ GetNode(Ring, k).node = last.ip
    /\ \E k \in Keys : /\ GetNode(Ring, k).node # last.ip
                       /\ GetNode(Ring, k).node = GetNode(last.pre, k).node

\* The distinct owners met walking clockwise over every position once, from
\* the 0-based index start of sortedRing.
RECURSIVE OwnersFrom(_, _, _, _)
OwnersFrom(r, start, steps, seen) ==
    IF steps = Len(r.sortedRing) THEN seen
    ELSE LET o == r.ring[r.sortedRing[((start + steps) % Len(r.sortedRing)) + 1]]
         IN  OwnersFrom(r, start, steps + 1,
                        IF \E x \in 1..Len(seen) : seen[x] = o
                        THEN seen ELSE Append(seen, o))

\* C4, for n >= 0: on a ring with a position, GetNodes(key, n) returns
\* exactly min(n, number of members) names, pairwise distinct, the first the node of
\* GetNode(key), the rest in the order their first position is met clockwise.
C4_GetNodesContract ==
    (last.op = "GetNodes" /\ DOMAIN Ring.ring # {} /\ last.n >= 0) =>
        LET m == Cardinality(Ring.members)
            want == IF last.n < m THEN last.n ELSE m
            walk == OwnersFrom(Ring, search(Ring, generateHash(last.name)),
                               0, <<>>)
        IN  /\ last.returned
            /\ last.err = Nil
            /\ Len(last.nodes) = want
            /\ \A x, y \in 1..Len(last.nodes) :
                   x # y => last.nodes[x] # last.nodes[y]
            /\ Len(last.nodes) <= Len(walk)
            /\ \A x \in 1..Len(last.nodes) : last.nodes[x] = walk[x]
            /\ Len(last.nodes) > 0 =>
                   last.nodes[1] = GetNode(Ring, last.name).node

\* C5: whenever no node is registered, GetNode fails with the
\* empty-ring error and GetNodes returns nil with no error.
C5_NoMemberMeansEmptyRing ==
    /\ (last.op = "GetNode" /\ Ring.members = {}) => last.err = ErrEmptyRing
    /\ (last.op = "GetNodes" /\ Ring.members = {}) =>
           (last.returned /\ last.nodes = <<>> /\ last.err = Nil)

\* C8: RemoveNode(name) of a name that is not registered returns and leaves
\* the ring index, the sorted index, the membership set, the weight table
\* and the cube number as they were.
C8_RemoveUnknownIsNoOp ==
    (last.op = "RemoveNode" /\ last.elt \notin last.pre.members) =>
        /\ last.returned
        /\ Ring = last.pre

\* RemoveNode was called with an unregistered name whose cube positions are
\* held in the ring by other nodes.
C8_Witness ==
    /\ last.op = "RemoveNode"
    /\ last.elt \notin last.pre.members
    /\ last.pre.members # {}
    /\ CubeHashes(last.elt, last.pre.numberOfCubes) \cap DOMAIN last.pre.ring # {}


\* C6, where the ring still holds a member: on any ring r that AddNode or
\* AddNodes has filled, SetCubeNumber(n) fails with the ring-not-empty error
\* and leaves r's cube number as it was.
C6_ConfigurationGuard ==
    (last.op = "SetCubeNumber" /\ last.pre.members # {}) =>
        /\ last.returned
        /\ last.err = ErrRingNotEmpty
        /\ Ring.numberOfCubes = last.pre.numberOfCubes

\* C7: SetCubeNumber(n) with n <= 0 on a ring with no member returns the
\* invalid-number error and leaves the ring as it was.
C7_InvalidNumberRejected ==
    (last.op = "SetCubeNumber" /\ last.num <= 0 /\ last.pre.members = {}) =>
        /\ last.returned
        /\ last.err = ErrInvalidNum
        /\ Ring = last.pre


\* A caller waits for the mutex and cannot have it in this state.
Blocked(p) ==
    \/ procs[p].pc = "lock" /\ mu.writer # NoProc
    \/ /\ procs[p].pc = "wait"
       /\ \E q \in Procs : mu.readers[q] # 0
    \/ procs[p].pc \in {"rlock", "members"} /\ mu.writer # NoProc

\* C9: deadlock freedom: the callers are never all blocked on the ring's
\* lock, whatever calls they make and however their steps interleave (the
\* spec's ground: no call asks for the lock while it holds it).
C9_DeadlockFree == ~(\A p \in Procs : Blocked(p))

\* C10: SetCubeNumber is atomic with respect to the writers: the cube number
\* does not change while an AddNode or RemoveNode is inserting or deleting
\* positions, nor while the ring has a member.
C10_CubeNumberFixedUnderWriters ==
    [][((\E p \in Procs : /\ procs[p].pc = "body"
                          /\ procs[p].op \in {"AddNode", "RemoveNode"})
        \/ TheRing.members # {})
       => rings'[1].numberOfCubes = rings[1].numberOfCubes]_vars


\* C11: a caller that holds the read lock (in GetNode, GetNodes or Members)
\* sees a sorted index that is the ascending sequence of the positions of the
\* ring index, so every position it reads there has an owner.
C11_ReadersSeeConsistentIndex ==
    \A p \in Procs :
        mu.readers[p] > 0 =>
            /\ TheRing.sortedRing = SortAscending(DOMAIN TheRing.ring)
            /\ \A x \in 1..Len(TheRing.sortedRing) :
                   TheRing.sortedRing[x] \in DOMAIN TheRing.ring

\* A reader holds the read lock on a ring with positions while a writer,
\* which will change them, waits for the lock.
C11_Witness ==
    \E p, q \in Procs :
        /\ mu.readers[p] > 0
        /\ procs[p].op \in {"GetNode", "GetNodes"}
        /\ DOMAIN TheRing.ring # {}
        /\ procs[q].pc = "wait"
        /\ procs[q].op \in {"AddNode", "RemoveNode"}


\* C12: two rings with the same cube number that were built from the same
\* nodes with the same weights, each node added once, in any order and by
\* AddNode or AddNodes, give every key to the same node.
C12_SameNodesSameOwners ==
    (/\ rings[1].weights = rings[2].weights
     /\ rings[1].numberOfCubes = rings[2].numberOfCubes) =>
        \A k \in Keys : GetNode(rings[1], k) = GetNode(rings[2], k)


\* C13: after AddNode(x, w) of a name x that was not registered, the
\* RemoveNode(x) that follows it gives back the ring index, the sorted index,
\* the membership set and the weight table the ring had before the AddNode.
C13_AddThenRemoveRestores ==
    (last.op = "AddNode" /\ last.ip \notin last.pre.members) =>
        LET back == RemoveNode(Ring, last.ip)
        IN  /\ back.ring = last.pre.ring
            /\ back.sortedRing = last.pre.sortedRing
            /\ back.members = last.pre.members
            /\ back.weights = last.pre.weights


\* The weights a call of AddNode or AddNodes records, by name, and the cubes
\* it writes, as pairs of a name and an index, on a ring with cube number c.
AddedWeights ==
    IF last.op = "AddNode"
    THEN (last.ip :> (IF last.weight <= 0 THEN 1 ELSE last.weight))
    ELSE [ip \in DOMAIN last.ipWeight |->
             IF last.ipWeight[ip] <= 0 THEN 1 ELSE last.ipWeight[ip]]

AddedCubes(c) ==
    {pr \in (DOMAIN AddedWeights) \X (0..(c * MaxWeight)) :
        pr[2] < c * AddedWeights[pr[1]]}

RECURSIVE WeightSum(_)
WeightSum(W) ==
    IF DOMAIN W = {} THEN 0
    ELSE LET ip == CHOOSE x \in DOMAIN W : TRUE
         IN  W[ip] + WeightSum([n \in (DOMAIN W) \ {ip} |-> W[n]])

CubePosition(pr) == generateHash(generateKey(pr[1], pr[2]))

\* C14: AddNode(name, w) on a ring with cube number c makes the ring index
\* hold, besides what it held at other positions, exactly the positions
\* hash(name#i), i = 0 .. c*max(w,1)-1, each owned by name, and records name
\* as a member with weight max(w,1).  When the positions a call of AddNode or
\* AddNodes writes are pairwise distinct and new to the ring, the ring index
\* and the sorted index grow by c times the sum of the weights.
C14_AddNodeInsertsItsCubes ==
    /\ last.op = "AddNode" =>
           LET c == last.pre.numberOfCubes
               w == IF last.weight <= 0 THEN 1 ELSE last.weight
               P == {generateHash(generateKey(last.ip, i)) :
                        i \in 0..(c * w - 1)}
           IN  /\ DOMAIN Ring.ring = (DOMAIN last.pre.ring) \cup P
               /\ \A p \in P : Ring.ring[p] = last.ip
               /\ \A p \in (DOMAIN last.pre.ring) \ P :
                      Ring.ring[p] = last.pre.ring[p]
               /\ Ring.members = last.pre.members \cup {last.ip}
               /\ DOMAIN Ring.weights = (DOMAIN last.pre.weights) \cup {last.ip}
               /\ Ring.weights[last.ip] = w
               /\ Ring.numberOfCubes = c
    /\ last.op \in {"AddNode", "AddNodes"} =>
           LET c == last.pre.numberOfCubes
               P == {CubePosition(pr) : pr \in AddedCubes(c)}
           IN  (/\ Cardinality(P) = Cardinality(AddedCubes(c))
                /\ P \cap DOMAIN last.pre.ring = {}) =>
                   /\ Cardinality(DOMAIN Ring.ring) =
                          Cardinality(DOMAIN last.pre.ring)
                              + c * WeightSum(AddedWeights)
                   /\ Len(Ring.sortedRing) = Cardinality(DOMAIN Ring.ring)

\* AddNode was called with a weight <= 0 on a ring that holds a node and
\* whose cube number a SetCubeNumber call has set, and wrote only positions
\* the ring did not hold.
C14_Witness ==
    /\ last.op = "AddNode"
    /\ last.weight <= 0
    /\ last.pre.members # {}
    /\ last.pre.numberOfCubes # DefaultVirtualCubes
    /\ LET P == {CubePosition(pr) : pr \in AddedCubes(last.pre.numberOfCubes)}
       IN  /\ P # {}
           /\ P \cap DOMAIN last.pre.ring = {}


\* C15: the membership set holds the names added and not removed since:
\* AddNode and AddNodes add the names they are given, RemoveNode takes its
\* name out, nothing else changes the set; Members() returns each name of
\* the set once; the weight table has the names of the set as its keys.
C15_MembersAreAddedNotRemoved ==
    /\ \A rid \in DOMAIN rings : DOMAIN rings[rid].weights = rings[rid].members
    /\ last.op = "AddNode" => Ring.members = last.pre.members \cup {last.ip}
    /\ last.op = "AddNodes" =>
           Ring.members = last.pre.members \cup DOMAIN last.ipWeight
    /\ last.op = "RemoveNode" => Ring.members = last.pre.members \ {last.elt}
    /\ last.op = "SetCubeNumber" => Ring.members = last.pre.members
    /\ last.op = "Members" =>
           /\ {last.m[x] : x \in 1..Len(last.m)} = Ring.members
           /\ Len(last.m) = Cardinality(Ring.members)

\* Members() was called on a ring with a member and with a position that a
\* removed node still owns.
C15_Witness ==
    /\ last.op = "Members"
    /\ Len(last.m) > 0
    /\ \E p \in DOMAIN Ring.ring : Ring.ring[p] \notin Ring.members


\* C16: every call of GetNodes(key, n) returns, whatever n and whatever
\* index the search finds.
C16_GetNodesReturns == last.op = "GetNodes" => last.returned


\* C17: after every completed AddNode, AddNodes or RemoveNode the sorted
\* index is strictly ascending and its elements are the keys of the ring
\* index, so both have the same number of entries.
C17_SortedIndexReflectsRing ==
    \A rid \in DOMAIN rings :
        LET r == rings[rid]
        IN  /\ \A x, y \in 1..Len(r.sortedRing) :
                   x < y => r.sortedRing[x] < r.sortedRing[y]
            /\ {r.sortedRing[x] : x \in 1..Len(r.sortedRing)} = DOMAIN r.ring
            /\ Len(r.sortedRing) = Cardinality(DOMAIN r.ring)

\* RemoveNode took positions out of a ring and left at least two.
C17_Witness ==
    /\ last.op = "RemoveNode"
    /\ DOMAIN Ring.ring # DOMAIN last.pre.ring
    /\ Len(Ring.sortedRing) >= 2

\* C18: on a sorted index with an entry, search(h) returns a valid 0-based
\* index: that of the smallest position greater than h, and 0 when no
\* position is greater than h.
C18_SearchStrictlyGreaterOrWrap ==
    (last.op \in {"GetNode", "GetNodes"} /\ Len(Ring.sortedRing) > 0) =>
        LET h == generateHash(last.name)
            index == search(Ring, h)
            greater == {p \in DOMAIN Ring.ring : p > h}
        IN  /\ index \in 0..(Len(Ring.sortedRing) - 1)
            /\ greater # {} =>
                   /\ Ring.sortedRing[index + 1] \in greater
                   /\ \A p \in greater : Ring.sortedRing[index + 1] <= p
            /\ greater = {} => index = 0

\* GetNode looked up a key whose hash is the largest of at least two
\* positions.
C18_Witness ==
    /\ last.op = "GetNode"
    /\ Len(Ring.sortedRing) >= 2
    /\ generateHash(last.name) = Ring.sortedRing[Len(Ring.sortedRing)]

\* C19: every name that owns a position of the ring index is in the
\* membership set.
C19_OwnersAreMembers ==
    \A rid \in DOMAIN rings :
        \A p \in DOMAIN rings[rid].ring :
            rings[rid].ring[p] \in rings[rid].members

====
